---- MODULE Spec2Model ----
(***************************************************************************)
(* Verhoeff checksum library (src/src/lib.rs).                             *)
(*                                                                         *)
(* A string is a sequence of characters, a character is its Unicode code   *)
(* point.  Every public function is a pure function of its input string;   *)
(* the state records the input, the function last called on it and what    *)
(* the call returned.                                                      *)
(***************************************************************************)
EXTENDS Integers, Sequences, FiniteSets, TLC

VARIABLES input, op, result, calls

vars == <<input, op, result, calls>>

(***************************************************************************)
(* Bounds of the input space.                                              *)
(***************************************************************************)
\* longest freely chosen front part of an input
MaxFree == 2
\* longest fixed digit run that follows the free part
MaxTail == 10
\* number of callers that run at the same time
NumCallers == 2

(***************************************************************************)
(* The three lookup tables (rows and columns are 0-based in the source,    *)
(* sequences are 1-based here: entry [a][b] is read as T[a + 1][b + 1]).   *)
(***************************************************************************)
\* D_TABLE with one entry mistyped: row 5 reads ... 1, 1 where it has ... 2, 1
MutD_TABLE ==
    << <<0, 1, 2, 3, 4, 5, 6, 7, 8, 9>>,
       <<1, 2, 3, 4, 0, 6, 7, 8, 9, 5>>,
       <<2, 3, 4, 0, 1, 7, 8, 9, 5, 6>>,
       <<3, 4, 0, 1, 2, 8, 9, 5, 6, 7>>,
       <<4, 0, 1, 2, 3, 9, 5, 6, 7, 8>>,
       <<5, 9, 8, 7, 6, 0, 4, 3, 1, 1>>,
       <<6, 5, 9, 8, 7, 1, 0, 4, 3, 2>>,
       <<7, 6, 5, 9, 8, 2, 1, 0, 4, 3>>,
       <<8, 7, 6, 5, 9, 3, 2, 1, 0, 4>>,
       <<9, 8, 7, 6, 5, 4, 3, 2, 1, 0>> >>

\* D_TABLE with the last entry mistyped as 10: the table is not closed
MutD_TABLE_Range ==
    << <<0, 1, 2, 3, 4, 5, 6, 7, 8, 9>>,
       <<1, 2, 3, 4, 0, 6, 7, 8, 9, 5>>,
       <<2, 3, 4, 0, 1, 7, 8, 9, 5, 6>>,
       <<3, 4, 0, 1, 2, 8, 9, 5, 6, 7>>,
       <<4, 0, 1, 2, 3, 9, 5, 6, 7, 8>>,
       <<5, 9, 8, 7, 6, 0, 4, 3, 2, 1>>,
       <<6, 5, 9, 8, 7, 1, 0, 4, 3, 2>>,
       <<7, 6, 5, 9, 8, 2, 1, 0, 4, 3>>,
       <<8, 7, 6, 5, 9, 3, 2, 1, 0, 4>>,
       <<9, 8, 7, 6, 5, 4, 3, 2, 1, 10>> >>

\* D_TABLE with the block of the products of two of 5..9 transposed: rows
\* and columns are still permutations, 0 is still the identity and INV still
\* gives inverses, but the operation is not associative
MutD_TABLE_NonAssoc ==
    << <<0, 1, 2, 3, 4, 5, 6, 7, 8, 9>>,
       <<1, 2, 3, 4, 0, 6, 7, 8, 9, 5>>,
       <<2, 3, 4, 0, 1, 7, 8, 9, 5, 6>>,
       <<3, 4, 0, 1, 2, 8, 9, 5, 6, 7>>,
       <<4, 0, 1, 2, 3, 9, 5, 6, 7, 8>>,
       <<5, 9, 8, 7, 6, 0, 1, 2, 3, 4>>,
       <<6, 5, 9, 8, 7, 4, 0, 1, 2, 3>>,
       <<7, 6, 5, 9, 8, 3, 4, 0, 1, 2>>,
       <<8, 7, 6, 5, 9, 2, 3, 4, 0, 1>>,
       <<9, 8, 7, 6, 5, 1, 2, 3, 4, 0>> >>

D_TABLE ==
    << <<0, 1, 2, 3, 4, 5, 6, 7, 8, 9>>,
       <<1, 2, 3, 4, 0, 6, 7, 8, 9, 5>>,
       <<2, 3, 4, 0, 1, 7, 8, 9, 5, 6>>,
       <<3, 4, 0, 1, 2, 8, 9, 5, 6, 7>>,
       <<4, 0, 1, 2, 3, 9, 5, 6, 7, 8>>,
       <<5, 9, 8, 7, 6, 0, 4, 3, 2, 1>>,
       <<6, 5, 9, 8, 7, 1, 0, 4, 3, 2>>,
       <<7, 6, 5, 9, 8, 2, 1, 0, 4, 3>>,
       <<8, 7, 6, 5, 9, 3, 2, 1, 0, 4>>,
       <<9, 8, 7, 6, 5, 4, 3, 2, 1, 0>> >>

\* P_TABLE with rows 4 to 7 repeating rows 0 to 3: the rows come round after
\* 4 positions
MutP_TABLE_Period4 ==
    << <<0, 1, 2, 3, 4, 5, 6, 7, 8, 9>>,
       <<1, 5, 7, 6, 2, 8, 3, 0, 9, 4>>,
       <<5, 8, 0, 3, 7, 9, 6, 1, 4, 2>>,
       <<8, 9, 1, 6, 0, 4, 3, 5, 2, 7>>,
       <<0, 1, 2, 3, 4, 5, 6, 7, 8, 9>>,
       <<1, 5, 7, 6, 2, 8, 3, 0, 9, 4>>,
       <<5, 8, 0, 3, 7, 9, 6, 1, 4, 2>>,
       <<8, 9, 1, 6, 0, 4, 3, 5, 2, 7>> >>

\* P_TABLE with every row the identity: a digit is folded as it is, whatever
\* its position
MutP_TABLE_Identity == [r \in 1..8 |-> <<0, 1, 2, 3, 4, 5, 6, 7, 8, 9>>]

\* P_TABLE with one entry of row 7 mistyped (7, 0, 4, 6, 9, 1, 3, 2, 5, 5):
\* the row has 5 twice and no 8
MutP_TABLE_Dup ==
    << <<0, 1, 2, 3, 4, 5, 6, 7, 8, 9>>,
       <<1, 5, 7, 6, 2, 8, 3, 0, 9, 4>>,
       <<5, 8, 0, 3, 7, 9, 6, 1, 4, 2>>,
       <<8, 9, 1, 6, 0, 4, 3, 5, 2, 7>>,
       <<9, 4, 5, 3, 1, 2, 6, 8, 7, 0>>,
       <<4, 2, 8, 6, 5, 7, 3, 9, 0, 1>>,
       <<2, 7, 9, 3, 8, 0, 6, 4, 1, 5>>,
       <<7, 0, 4, 6, 9, 1, 3, 2, 5, 5>> >>

\* P_TABLE with two neighbouring entries of row 2 exchanged (8, 5 for 5, 8):
\* every row is still a permutation
MutP_TABLE ==
    << <<0, 1, 2, 3, 4, 5, 6, 7, 8, 9>>,
       <<1, 5, 7, 6, 2, 8, 3, 0, 9, 4>>,
       <<8, 5, 0, 3, 7, 9, 6, 1, 4, 2>>,
       <<8, 9, 1, 6, 0, 4, 3, 5, 2, 7>>,
       <<9, 4, 5, 3, 1, 2, 6, 8, 7, 0>>,
       <<4, 2, 8, 6, 5, 7, 3, 9, 0, 1>>,
       <<2, 7, 9, 3, 8, 0, 6, 4, 1, 5>>,
       <<7, 0, 4, 6, 9, 1, 3, 2, 5, 8>> >>

P_TABLE ==
    << <<0, 1, 2, 3, 4, 5, 6, 7, 8, 9>>,
       <<1, 5, 7, 6, 2, 8, 3, 0, 9, 4>>,
       <<5, 8, 0, 3, 7, 9, 6, 1, 4, 2>>,
       <<8, 9, 1, 6, 0, 4, 3, 5, 2, 7>>,
       <<9, 4, 5, 3, 1, 2, 6, 8, 7, 0>>,
       <<4, 2, 8, 6, 5, 7, 3, 9, 0, 1>>,
       <<2, 7, 9, 3, 8, 0, 6, 4, 1, 5>>,
       <<7, 0, 4, 6, 9, 1, 3, 2, 5, 8>> >>

\* INV_TABLE left as the identity: the final inversion has no effect
MutINV_TABLE == <<0, 1, 2, 3, 4, 5, 6, 7, 8, 9>>

\* INV_TABLE with the inverses of 1 and 4 left in place (1, 4 for 4, 1)
MutINV_TABLE_Rot == <<0, 1, 3, 2, 4, 5, 6, 7, 8, 9>>

INV_TABLE == <<0, 4, 3, 2, 1, 5, 6, 7, 8, 9>>

(***************************************************************************)
(* Values: Result, Option and the error enum.                              *)
(***************************************************************************)
Ok(v) == [tag |-> "Ok", val |-> v]

Err(e) == [tag |-> "Err", val |-> e]

Some(v) == [some |-> TRUE, val |-> v]

None == [some |-> FALSE, val |-> 0]

InvalidCharacter(c) == [kind |-> "InvalidCharacter", arg |-> c]

EmptyInput == [kind |-> "EmptyInput", arg |-> 0]

InvalidAadhaarLength(n) == [kind |-> "InvalidAadhaarLength", arg |-> n]

\* Result::unwrap_or
UnwrapOr(r, default) == IF r.tag = "Ok" THEN r.val ELSE default

(***************************************************************************)
(* Characters.                                                             *)
(***************************************************************************)
\* the code point of '0'
Zero == 48

\* ToDigit that also takes the decimal digits of the Arabic-Indic block
\* (U+0660..U+0669), as a Unicode-aware digit test would
MutToDigit(c) ==
    IF c >= Zero /\ c - Zero < 10 THEN Some(c - Zero)
    ELSE IF c >= 1632 /\ c - 1632 < 10 THEN Some(c - 1632)
    ELSE None

\* ToDigit with radix 16: 'a'..'f' are the digits 10..15
MutToDigitHex(c) ==
    IF c >= Zero /\ c - Zero < 10 THEN Some(c - Zero)
    ELSE IF c >= 97 /\ c - 97 < 6 THEN Some(c - 97 + 10)
    ELSE None

\* char::to_digit(10): the code point minus '0' as a u32, a digit when it is
\* below the radix; below '0' the subtraction wraps around to a value above
\* every radix
ToDigit(c) ==
    LET digit == c - Zero
    IN  IF c >= Zero /\ digit < 10 THEN Some(digit) ELSE None

\* the decimal rendering of an unsigned integer, as `{checksum}` in format!
RECURSIVE U8ToString(_)
U8ToString(n) ==
    IF n < 10 THEN <<Zero + n>>
    ELSE Append(U8ToString(n \div 10), Zero + (n % 10))

\* str::len(): the length in bytes of the UTF-8 encoding
Utf8Len(c) ==
    IF c < 128 THEN 1 ELSE IF c < 2048 THEN 2 ELSE IF c < 65536 THEN 3 ELSE 4

RECURSIVE ByteLen(_)
ByteLen(s) == IF s = <<>> THEN 0 ELSE Utf8Len(Head(s)) + ByteLen(Tail(s))

(***************************************************************************)
(* string_to_digits                                                        *)
(***************************************************************************)
\* the map over s.chars() collected into a Result: the digits so far, or the
\* error of the first character that has no digit value
RECURSIVE Collect(_, _, _)
Collect(s, k, acc) ==
    IF k > Len(s) THEN Ok(acc)
    ELSE LET d == ToDigit(s[k])
         IN  IF d.some THEN Collect(s, k + 1, Append(acc, d.val % 256))
             ELSE Err(InvalidCharacter(s[k]))

\* StringToDigits without the test for the empty string
MutStringToDigits(s) == Collect(s, 1, <<>>)

StringToDigits(s) ==
    IF Len(s) = 0 THEN Err(EmptyInput) ELSE Collect(s, 1, <<>>)

(***************************************************************************)
(* calculate_checksum_result, calculate_checksum                           *)
(***************************************************************************)
\* ChecksumStep without the shift of the row by one: the payload is folded
\* with the rows validate_result uses for a string that has no check digit
MutChecksumStep(c, i, digit) ==
    LET permuted == P_TABLE[(i % 8) + 1][digit + 1]
    IN  D_TABLE[c + 1][permuted + 1]

\* one turn of the loop of calculate_checksum_result: i counts from the
\* last digit (i = 0)
ChecksumStep(c, i, digit) ==
    LET permuted == P_TABLE[((i + 1) % 8) + 1][digit + 1]
    IN  D_TABLE[c + 1][permuted + 1]

\* ChecksumLoop without .rev(): the digits are visited from first to last
RECURSIVE MutChecksumLoop(_, _, _)
MutChecksumLoop(digits, i, c) ==
    IF i = Len(digits) THEN c
    ELSE MutChecksumLoop(digits, i + 1, ChecksumStep(c, i, digits[i + 1]))

\* the loop over digits.iter().rev().enumerate(), from turn i on
RECURSIVE ChecksumLoop(_, _, _)
ChecksumLoop(digits, i, c) ==
    IF i = Len(digits) THEN c
    ELSE ChecksumLoop(digits, i + 1, ChecksumStep(c, i, digits[Len(digits) - i]))

CalculateChecksumResult(s) ==
    LET parsed == StringToDigits(s)
    IN  IF parsed.tag = "Err" THEN parsed
        ELSE Ok(INV_TABLE[ChecksumLoop(parsed.val, 0, 0) + 1])

\* CalculateChecksum that reports a failure as u8::MAX instead of 0
MutCalculateChecksum(s) == UnwrapOr(CalculateChecksumResult(s), 255)

CalculateChecksum(s) == UnwrapOr(CalculateChecksumResult(s), 0)

(***************************************************************************)
(* validate_result, validate                                               *)
(***************************************************************************)
\* ValidateStep with the operands of D exchanged
MutValidateStep(c, i, digit) ==
    LET permuted == P_TABLE[(i % 8) + 1][digit + 1]
    IN  D_TABLE[permuted + 1][c + 1]

\* one turn of the loop of validate_result
ValidateStep(c, i, digit) ==
    LET permuted == P_TABLE[(i % 8) + 1][digit + 1]
    IN  D_TABLE[c + 1][permuted + 1]

\* ValidateLoop without .rev(): the digits are visited from first to last
RECURSIVE MutValidateLoop(_, _, _)
MutValidateLoop(digits, i, c) ==
    IF i = Len(digits) THEN c
    ELSE MutValidateLoop(digits, i + 1, ValidateStep(c, i, digits[i + 1]))

\* the loop over digits.iter().rev().enumerate(), from turn i on
RECURSIVE ValidateLoop(_, _, _)
ValidateLoop(digits, i, c) ==
    IF i = Len(digits) THEN c
    ELSE ValidateLoop(digits, i + 1, ValidateStep(c, i, digits[Len(digits) - i]))

ValidateResult(s) ==
    LET parsed == StringToDigits(s)
    IN  IF parsed.tag = "Err" THEN parsed
        ELSE IF Len(parsed.val) = 0 THEN Ok(FALSE)
        ELSE Ok(ValidateLoop(parsed.val, 0, 0) = 0)

\* Validate that takes an input it could not parse for valid
MutValidate(s) == UnwrapOr(ValidateResult(s), TRUE)

Validate(s) == UnwrapOr(ValidateResult(s), FALSE)

(***************************************************************************)
(* append_checksum                                                         *)
(***************************************************************************)
\* AppendChecksum with the two arguments of format! exchanged
MutAppendChecksum(s) ==
    LET r == CalculateChecksumResult(s)
    IN  IF r.tag = "Ok" THEN U8ToString(r.val) \o s ELSE s

\* AppendChecksum built on the permissive calculate_checksum: a 0 is appended
\* to an input that does not parse
MutAppendChecksumErr(s) == s \o U8ToString(CalculateChecksum(s))

AppendChecksum(s) ==
    LET r == CalculateChecksumResult(s)
    IN  IF r.tag = "Ok" THEN s \o U8ToString(r.val) ELSE s

(***************************************************************************)
(* validate_aadhaar                                                        *)
(***************************************************************************)
\* &aadhaar[..n]: the first n bytes; only reached with ASCII input here,
\* where bytes and characters coincide
SliceTo(s, n) == SubSeq(s, 1, n)

\* ValidateAadhaar that takes digits[10], the last payload digit, for the
\* check digit
MutValidateAadhaarIndex(s) ==
    IF ByteLen(s) # 12 THEN Err(InvalidAadhaarLength(ByteLen(s)))
    ELSE LET parsed == StringToDigits(s)
         IN  IF parsed.tag = "Err" THEN parsed
             ELSE LET expected == CalculateChecksumResult(SliceTo(s, 11))
                  IN  IF expected.tag = "Err" THEN expected
                      ELSE Ok(expected.val = parsed.val[11])

ValidateAadhaar(s) ==
    IF ByteLen(s) # 12 THEN Err(InvalidAadhaarLength(ByteLen(s)))
    ELSE LET parsed == StringToDigits(s)
         IN  IF parsed.tag = "Err" THEN parsed
             ELSE LET number_part == SliceTo(s, 11)
                      checksum_digit == parsed.val[12]
                      expected == CalculateChecksumResult(number_part)
                  IN  IF expected.tag = "Err" THEN expected
                      ELSE Ok(expected.val = checksum_digit)

(***************************************************************************)
(* Inputs.                                                                 *)
(***************************************************************************)
\* '0'..'9'
AsciiDigits == {Zero + d : d \in 0..9}

\* ' ', '-', '/', ':', 'a' and ARABIC-INDIC DIGIT ONE (two bytes in UTF-8)
OtherChars == {32, 45, 47, 58, 97, 1633}

Chars == AsciiDigits \cup OtherChars

\* the string of the digits ds
Str(ds) == [k \in 1..Len(ds) |-> Zero + ds[k]]

\* every string over Chars of at most MaxFree characters
FreeStrings == UNION {[1..n -> Chars] : n \in 0..MaxFree}

\* "1234567890123...", cut at n characters
Run(n) == [k \in 1..n |-> Zero + (k % 10)]

\* the inputs named in the library's tests
KnownVectors ==
    { Str(<<2, 3, 6>>), Str(<<1, 2, 3, 4, 5>>), Str(<<1, 4, 2, 8, 5, 7>>),
      Str(<<1, 2, 3, 4, 5, 6, 7, 8, 9>>),
      Str(<<1, 2, 3, 4, 5, 6, 7, 8, 9, 0, 1>>),
      Str(<<0>>), Str(<<1>>), Str(<<9>>),
      Str(<<0, 0, 0, 0, 0, 0, 0, 0>>),
      Str(<<0, 0, 0, 0, 0, 0, 0, 0, 0, 0>>),
      Str(<<2, 3, 6, 3>>), Str(<<2, 3, 6, 4>>) }

Inputs == {w \o Run(n) : w \in FreeStrings, n \in 0..MaxTail} \cup KnownVectors

(***************************************************************************)
(* A call in progress: the function, its argument, its position and its    *)
(* locals.  pc is "off" (no call), "call" (entered), "loop" (in the fold   *)
(* loop, i turns done), "done" (returned ret) or "panic" (an index out of  *)
(* bounds, a slice off a character boundary).                              *)
(***************************************************************************)
Callers == 1..NumCallers

CallState(pc, fn, arg, digits, i, c, permuted, check, ret) ==
    [pc |-> pc, fn |-> fn, arg |-> arg, digits |-> digits, i |-> i, c |-> c,
     permuted |-> permuted, check |-> check, ret |-> ret]

NotCalled == CallState("off", "none", <<>>, <<>>, 0, 0, 0, 0, 0)

Entered(fn, arg) == CallState("call", fn, arg, <<>>, 0, 0, 0, 0, 0)

(***************************************************************************)
(* The state machine: any public function may be called on the input.      *)
(***************************************************************************)
Init ==
    /\ input \in Inputs
    /\ op = "none"
    /\ result = 0
    /\ calls = [t \in Callers |-> NotCalled]

CallCalculateChecksum ==
    /\ op' = "calculate_checksum"
    /\ result' = CalculateChecksum(input)
    /\ UNCHANGED <<input, calls>>

CallCalculateChecksumResult ==
    /\ op' = "calculate_checksum_result"
    /\ result' = CalculateChecksumResult(input)
    /\ UNCHANGED <<input, calls>>

CallValidate ==
    /\ op' = "validate"
    /\ result' = Validate(input)
    /\ UNCHANGED <<input, calls>>

CallValidateResult ==
    /\ op' = "validate_result"
    /\ result' = ValidateResult(input)
    /\ UNCHANGED <<input, calls>>

CallAppendChecksum ==
    /\ op' = "append_checksum"
    /\ result' = AppendChecksum(input)
    /\ UNCHANGED <<input, calls>>

CallValidateAadhaar ==
    /\ op' = "validate_aadhaar"
    /\ result' = ValidateAadhaar(input)
    /\ UNCHANGED <<input, calls>>

Next ==
    \/ CallCalculateChecksum
    \/ CallCalculateChecksumResult
    \/ CallValidate
    \/ CallValidateResult
    \/ CallAppendChecksum
    \/ CallValidateAadhaar

Spec == Init /\ [][Next]_vars

(***************************************************************************)
(* The same functions step by step: a caller enters a function, takes the  *)
(* turns of the fold loop one at a time and returns.  Callers interleave.  *)
(***************************************************************************)
ChecksumFns == {"calculate_checksum", "calculate_checksum_result"}

ValidateFns == {"validate", "validate_result"}

\* the functions that return a Result
ResultFns == {"calculate_checksum_result", "validate_result", "validate_aadhaar"}

\* seq[idx] with the bounds check of the language: idx counts from 0
InBounds(seq, idx) == idx >= 0 /\ idx < Len(seq)

\* &s[..n] is allowed: n is within s and falls between two characters
IsCharBoundary(s, n) ==
    \E k \in 0..Len(s) : ByteLen(SubSeq(s, 1, k)) = n

\* one accumulator for all callers, as a `static mut c` would be: every
\* caller reads the one the first caller writes
MutSharedAccumulator(t) == calls[1].c

\* the accumulator that caller t reads and writes: the local `let mut c`
Accumulator(t) == calls[t].c

Returned(call, ret) == [call EXCEPT !.pc = "done", !.ret = ret]

Panicked(call) == [call EXCEPT !.pc = "panic"]

InLoop(call, digits, check) ==
    [call EXCEPT !.pc = "loop", !.digits = digits, !.i = 0, !.c = 0,
                 !.check = check]

\* what a failed parse makes of the call: the error, or the default of the
\* permissive function
Failure(fn, err) ==
    IF fn = "calculate_checksum" THEN 0
    ELSE IF fn = "validate" THEN FALSE
    ELSE err

\* the statements of the function up to its loop
EnterCall(call) ==
    IF call.fn = "validate_aadhaar"
    THEN IF ByteLen(call.arg) # 12
         THEN Returned(call, Err(InvalidAadhaarLength(ByteLen(call.arg))))
         ELSE LET parsed == StringToDigits(call.arg)
              IN  IF parsed.tag = "Err" THEN Returned(call, parsed)
                  ELSE IF ~IsCharBoundary(call.arg, 11) THEN Panicked(call)
                  ELSE IF ~InBounds(parsed.val, 11) THEN Panicked(call)
                  ELSE LET number == StringToDigits(SliceTo(call.arg, 11))
                       IN  IF number.tag = "Err" THEN Returned(call, number)
                           ELSE InLoop(call, number.val, parsed.val[12])
    ELSE LET parsed == StringToDigits(call.arg)
         IN  IF parsed.tag = "Err"
             THEN Returned(call, Failure(call.fn, parsed))
             ELSE IF call.fn \in ValidateFns /\ Len(parsed.val) = 0
             THEN Returned(call, Failure(call.fn, Ok(FALSE)))
             ELSE InLoop(call, parsed.val, 0)

Enter(t) ==
    /\ calls[t].pc = "call"
    /\ calls' = [calls EXCEPT ![t] = EnterCall(calls[t])]
    /\ UNCHANGED <<input, op, result>>

\* one turn of the fold loop of caller t
LoopStep(t) ==
    /\ calls[t].pc = "loop"
    /\ calls[t].i < Len(calls[t].digits)
    /\ LET call == calls[t]
           i == call.i
           digit == call.digits[Len(call.digits) - i]
           row == IF call.fn \in ValidateFns THEN i % 8 ELSE (i + 1) % 8
           acc == Accumulator(t)
       IN  calls' = [calls EXCEPT ![t] =
              IF ~InBounds(P_TABLE, row) \/ ~InBounds(P_TABLE[row + 1], digit)
              THEN Panicked(call)
              ELSE LET permuted == P_TABLE[row + 1][digit + 1]
                   IN  IF ~InBounds(D_TABLE, acc)
                          \/ ~InBounds(D_TABLE[acc + 1], permuted)
                       THEN [Panicked(call) EXCEPT !.permuted = permuted]
                       ELSE [call EXCEPT
                               !.permuted = permuted,
                               !.i = i + 1,
                               !.c = IF call.fn \in ValidateFns
                                     THEN ValidateStep(acc, i, digit)
                                     ELSE ChecksumStep(acc, i, digit)]]
    /\ UNCHANGED <<input, op, result>>

\* the statements after the loop
Return(t) ==
    /\ calls[t].pc = "loop"
    /\ calls[t].i = Len(calls[t].digits)
    /\ LET call == calls[t]
           acc == Accumulator(t)
       IN  calls' = [calls EXCEPT ![t] =
              IF call.fn \in ValidateFns
              THEN Returned(call, IF call.fn = "validate" THEN acc = 0
                                  ELSE Ok(acc = 0))
              ELSE IF ~InBounds(INV_TABLE, acc) THEN Panicked(call)
              ELSE IF call.fn = "calculate_checksum"
                   THEN Returned(call, INV_TABLE[acc + 1])
              ELSE IF call.fn = "calculate_checksum_result"
                   THEN Returned(call, Ok(INV_TABLE[acc + 1]))
              ELSE Returned(call, Ok(INV_TABLE[acc + 1] = call.check))]
    /\ UNCHANGED <<input, op, result>>

NextSteps ==
    \/ \E t \in Callers : Enter(t)
    \/ \E t \in Callers : LoopStep(t)
    \/ \E t \in Callers : Return(t)

\* one call of a Result-returning function on any input, the other callers
\* stay out
InitSteps ==
    /\ input = <<>>
    /\ op = "none"
    /\ result = 0
    /\ \E fn \in ResultFns : \E arg \in Inputs :
          calls = [t \in Callers |-> IF t = 1 THEN Entered(fn, arg)
                                     ELSE NotCalled]

SpecSteps == InitSteps /\ [][NextSteps]_vars

\* the numbers the threads of test_concurrent_safety work on, and two inputs
\* that do not parse
ConcInputs ==
    { Str(<<1, 2, 3, 4, 5, 6, 7, 8, 9>>), Str(<<9, 8, 7, 6, 5, 4, 3, 2, 1>>),
      Str(<<1, 1, 1, 1, 1, 1, 1, 1, 1>>), <<>>, <<49, 97>> }

\* every caller is in a call of calculate_checksum or validate
InitConc ==
    /\ input = <<>>
    /\ op = "none"
    /\ result = 0
    /\ calls \in [Callers -> {Entered(fn, arg) :
                                fn \in {"calculate_checksum", "validate"},
                                arg \in ConcInputs}]

SpecConc == InitConc /\ [][NextSteps]_vars

(***************************************************************************)
(* Vocabulary of the properties.                                           *)
(***************************************************************************)
\* s is non-empty and made only of '0'..'9'
IsDigitString(s) == Len(s) >= 1 /\ \A k \in 1..Len(s) : s[k] \in 48..57

\* the character of the digit d
DigitChar(d) == 48 + d

\* s with the character at position p replaced by ch
Substitute(s, p, ch) == [s EXCEPT ![p] = ch]

\* s with the characters at positions p and p + 1 exchanged
Transpose(s, p) == [s EXCEPT ![p] = s[p + 1], ![p + 1] = s[p]]

\* calculate_checksum has returned on a digit string
ChecksumOfDigits == op = "calculate_checksum" /\ IsDigitString(input)

\* the input followed by the check digit that calculate_checksum returned
WithCheck == Append(input, DigitChar(result))

(***************************************************************************)
(* C1: round trip.  For every non-empty string s of ASCII digits, of any   *)
(* length, validate accepts s followed by the digit that                   *)
(* calculate_checksum(s) returned.                                         *)
(***************************************************************************)
C1_RoundTrip ==
    ChecksumOfDigits => Validate(WithCheck) = TRUE

\* a payload longer than 8 digits, where the row index has wrapped, has
\* been given its check digit and validates
C1_Witness ==
    /\ ChecksumOfDigits
    /\ Len(input) > 8
    /\ Validate(WithCheck) = TRUE

(***************************************************************************)
(* C2: uniqueness of the check digit.  For every non-empty digit string s  *)
(* and every digit d other than calculate_checksum(s), validate rejects s  *)
(* followed by d: exactly one of the ten trailing digits validates.        *)
(***************************************************************************)
C2_UniqueCheckDigit ==
    ChecksumOfDigits =>
        {d \in 0..9 : Validate(Append(input, DigitChar(d)))} = {result}

\* a checksum was computed and some other trailing digit was rejected
C2_Witness ==
    /\ ChecksumOfDigits
    /\ Len(input) > 8
    /\ \E d \in 0..9 :
          d # result /\ Validate(Append(input, DigitChar(d))) = FALSE

(***************************************************************************)
(* C3: single-substitution detection.  In every valid string               *)
(* s + calculate_checksum(s), replacing the digit at any one position,     *)
(* the check digit's included, by any other digit makes validate reject.   *)
(***************************************************************************)
C3_SubstitutionDetected ==
    ChecksumOfDigits =>
        \A p \in 1..Len(WithCheck) : \A d \in 0..9 :
            DigitChar(d) # WithCheck[p] =>
                Validate(Substitute(WithCheck, p, DigitChar(d))) = FALSE

\* a valid string of more than 9 characters whose first digit, folded with a
\* wrapped row, is replaced and the result rejected
C3_Witness ==
    /\ ChecksumOfDigits
    /\ Len(WithCheck) > 9
    /\ Validate(WithCheck) = TRUE
    /\ \E d \in 0..9 :
          /\ DigitChar(d) # WithCheck[1]
          /\ Validate(Substitute(WithCheck, 1, DigitChar(d))) = FALSE

(***************************************************************************)
(* C4: adjacent-transposition detection.  In every valid string            *)
(* s + calculate_checksum(s), exchanging two adjacent characters that      *)
(* differ, the last payload digit and the check digit included, makes      *)
(* validate reject.                                                        *)
(***************************************************************************)
C4_TranspositionDetected ==
    ChecksumOfDigits =>
        \A p \in 1..(Len(WithCheck) - 1) :
            WithCheck[p] # WithCheck[p + 1] =>
                Validate(Transpose(WithCheck, p)) = FALSE

\* a valid string in which the pair folded with rows 0 and 7 (the ninth and
\* eighth characters from the end) differs, is exchanged and is rejected
C4_Witness ==
    /\ ChecksumOfDigits
    /\ Len(WithCheck) >= 9
    /\ Validate(WithCheck) = TRUE
    /\ LET p == Len(WithCheck) - 8
       IN  /\ WithCheck[p] # WithCheck[p + 1]
           /\ Validate(Transpose(WithCheck, p)) = FALSE

(***************************************************************************)
(* C5: known vectors.  calculate_checksum returns 3 for "236", 1 for       *)
(* "12345", 0 for "142857", 0 for "123456789", 0 for "12345678901", 4 for  *)
(* "0", 5 for "1", 1 for "9", 1 for "00000000" and 5 for "0000000000";     *)
(* validate("2363") is true and validate("2364") is false.                 *)
(***************************************************************************)
C5_KnownVectors ==
    /\ op = "calculate_checksum" =>
          /\ input = Str(<<2, 3, 6>>) => result = 3
          /\ input = Str(<<1, 2, 3, 4, 5>>) => result = 1
          /\ input = Str(<<1, 4, 2, 8, 5, 7>>) => result = 0
          /\ input = Str(<<1, 2, 3, 4, 5, 6, 7, 8, 9>>) => result = 0
          /\ input = Str(<<1, 2, 3, 4, 5, 6, 7, 8, 9, 0, 1>>) => result = 0
          /\ input = Str(<<0>>) => result = 4
          /\ input = Str(<<1>>) => result = 5
          /\ input = Str(<<9>>) => result = 1
          /\ input = Str(<<0, 0, 0, 0, 0, 0, 0, 0>>) => result = 1
          /\ input = Str(<<0, 0, 0, 0, 0, 0, 0, 0, 0, 0>>) => result = 5
    /\ op = "validate" =>
          /\ input = Str(<<2, 3, 6, 3>>) => result = TRUE
          /\ input = Str(<<2, 3, 6, 4>>) => result = FALSE

\* calculate_checksum has returned 3 on "236"
C5_Witness ==
    /\ op = "calculate_checksum"
    /\ input = Str(<<2, 3, 6>>)
    /\ result = 3

(***************************************************************************)
(* C6: the empty input is an error of the Result-returning functions:      *)
(* calculate_checksum_result("") and validate_result("") both return       *)
(* Err(EmptyInput), never Ok(0) or Ok(false).                              *)
(***************************************************************************)
C6_EmptyInputIsError ==
    (op \in {"calculate_checksum_result", "validate_result"} /\ input = <<>>)
        => (result.tag = "Err" /\ result.val = EmptyInput)

\* validate_result has returned an error on the empty string
C6_Witness ==
    /\ op = "validate_result"
    /\ input = <<>>
    /\ result.tag = "Err"

(***************************************************************************)
(* C7: on every non-empty input that has a character outside '0'..'9',     *)
(* calculate_checksum_result and validate_result fail with                 *)
(* InvalidCharacter(c), c being the first such character from the left;    *)
(* an input is accepted only when every character is an ASCII digit.       *)
(***************************************************************************)
HasNonDigit(s) == \E k \in 1..Len(s) : s[k] \notin 48..57

FirstNonDigit(s) ==
    s[CHOOSE k \in 1..Len(s) :
          s[k] \notin 48..57 /\ \A j \in 1..(k - 1) : s[j] \in 48..57]

C7_FirstInvalidCharacter ==
    op \in {"calculate_checksum_result", "validate_result"} =>
        /\ HasNonDigit(input) =>
              /\ result.tag = "Err"
              /\ result.val = InvalidCharacter(FirstNonDigit(input))
        /\ result.tag = "Ok" => IsDigitString(input)

\* a digit of another script followed by a letter and by ASCII digits: the
\* error names the digit of the other script
C7_Witness ==
    /\ op = "validate_result"
    /\ Len(input) > 2
    /\ input[1] = 1633
    /\ input[2] = 97
    /\ result.tag = "Err"
    /\ result.val = InvalidCharacter(1633)

(***************************************************************************)
(* C8: permissive compute.  calculate_checksum(x) is 0 on every input on   *)
(* which calculate_checksum_result(x) is an error (the empty input, an     *)
(* input with a non-digit) and is v when calculate_checksum_result(x) is   *)
(* Ok(v); it is always in 0..9.                                            *)
(***************************************************************************)
C8_PermissiveChecksum ==
    op = "calculate_checksum" =>
        LET r == CalculateChecksumResult(input)
        IN  /\ r.tag = "Err" => result = 0
            /\ r.tag = "Ok" => result = r.val
            /\ (input = <<>> \/ HasNonDigit(input)) => (r.tag = "Err" /\ result = 0)
            /\ result \in 0..9

\* calculate_checksum has returned 0 on an input with a non-digit
C8_Witness ==
    /\ op = "calculate_checksum"
    /\ HasNonDigit(input)
    /\ result = 0

(***************************************************************************)
(* C9: permissive validate.  validate(x) is true exactly when              *)
(* validate_result(x) is Ok(true); it is false on the empty input, on      *)
(* every input with a non-digit and on every checksum mismatch.            *)
(***************************************************************************)
\* s is a digit string with a payload whose last digit is not the payload's
\* check digit
ChecksumMismatch(s) ==
    /\ IsDigitString(s)
    /\ Len(s) >= 2
    /\ s[Len(s)] # DigitChar(CalculateChecksum(SubSeq(s, 1, Len(s) - 1)))

C9_PermissiveValidate ==
    op = "validate" =>
        LET r == ValidateResult(input)
        IN  /\ result = TRUE <=> (r.tag = "Ok" /\ r.val = TRUE)
            /\ input = <<>> => result = FALSE
            /\ HasNonDigit(input) => result = FALSE
            /\ ChecksumMismatch(input) => result = FALSE

\* validate has returned false on an input with a non-digit
C9_Witness ==
    /\ op = "validate"
    /\ HasNonDigit(input)
    /\ result = FALSE

(***************************************************************************)
(* C10: for every non-empty digit string s, append_checksum(s) is one      *)
(* character longer than s, starts with s, ends with the digit             *)
(* calculate_checksum(s), and validate accepts it.                         *)
(***************************************************************************)
C10_AppendChecksum ==
    (op = "append_checksum" /\ IsDigitString(input)) =>
        /\ Len(result) = Len(input) + 1
        /\ SubSeq(result, 1, Len(input)) = input
        /\ result[Len(result)] = DigitChar(CalculateChecksum(input))
        /\ Validate(result) = TRUE

\* append_checksum has extended a payload of more than 8 digits
C10_Witness ==
    /\ op = "append_checksum"
    /\ IsDigitString(input)
    /\ Len(input) > 8
    /\ Len(result) = Len(input) + 1
    /\ Validate(result) = TRUE

(***************************************************************************)
(* C11: on every input that does not parse (the empty string, a string     *)
(* with a non-digit) append_checksum returns the input unchanged: same     *)
(* length, same characters, nothing appended.                              *)
(***************************************************************************)
C11_AppendPassthrough ==
    (op = "append_checksum" /\ (input = <<>> \/ HasNonDigit(input))) =>
        /\ Len(result) = Len(input)
        /\ result = input

\* append_checksum has returned a non-empty input with a non-digit as it was
C11_Witness ==
    /\ op = "append_checksum"
    /\ HasNonDigit(input)
    /\ Len(input) > 2
    /\ result = input

(***************************************************************************)
(* C12: validate_aadhaar fails with InvalidAadhaarLength(n) on every input *)
(* whose length is not 12, n being that length, the number of characters   *)
(* of the input.  The length is checked before any character: a            *)
(* wrong-length input with non-digits, and the empty input, get            *)
(* InvalidAadhaarLength, not InvalidCharacter or EmptyInput, and no Ok.    *)
(***************************************************************************)
C12_LengthCheckedFirst ==
    (op = "validate_aadhaar" /\ Len(input) # 12) =>
        /\ result.tag = "Err"
        /\ result.val = InvalidAadhaarLength(Len(input))

(***************************************************************************)
(* C13: on every input of exactly 12 characters with at least one          *)
(* character outside '0'..'9', non-ASCII characters included,              *)
(* validate_aadhaar fails with InvalidCharacter of the first such          *)
(* character, never with InvalidAadhaarLength and never with an Ok.        *)
(***************************************************************************)
C13_TwelveCharsInvalidCharacter ==
    (op = "validate_aadhaar" /\ Len(input) = 12 /\ HasNonDigit(input)) =>
        /\ result.tag = "Err"
        /\ result.val = InvalidCharacter(FirstNonDigit(input))

(***************************************************************************)
(* C14: on every string of exactly 12 ASCII digits validate_aadhaar        *)
(* returns no error: Ok(true) when the 12th digit is calculate_checksum of *)
(* the first 11, Ok(false) otherwise.                                      *)
(***************************************************************************)
C14_TwelveDigits ==
    (op = "validate_aadhaar" /\ IsDigitString(input) /\ Len(input) = 12) =>
        /\ result.tag = "Ok"
        /\ result.val =
              (input[12] = DigitChar(CalculateChecksum(SubSeq(input, 1, 11))))

\* validate_aadhaar has accepted a string of 12 digits
C14_Witness ==
    /\ op = "validate_aadhaar"
    /\ IsDigitString(input)
    /\ Len(input) = 12
    /\ result.tag = "Ok"
    /\ result.val = TRUE

(***************************************************************************)
(* C18: calculate_checksum_result on a digit string is the reference fold: *)
(* c starts at 0; the digits are visited from last to first, the digit at  *)
(* distance i from the end (the last digit has i = 0) is replaced by       *)
(* P[(i + 1) mod 8][digit] and c becomes D[c][that value]; the result is   *)
(* INV[c].  validate_result is the same fold with row i mod 8 over the     *)
(* whole string and returns Ok(c == 0).                                    *)
(***************************************************************************)
\* the digit values of a digit string
DigitsOf(s) == [k \in 1..Len(s) |-> s[k] - 48]

\* the reference fold, stated from the first digit: the first of n digits
\* is at distance n - 1 from the end and is folded last, onto the fold of
\* the digits after it
RECURSIVE RefFold(_, _)
RefFold(ds, shift) ==
    IF ds = <<>> THEN 0
    ELSE LET i == Len(ds) - 1
             permuted == P_TABLE[((i + shift) % 8) + 1][Head(ds) + 1]
         IN  D_TABLE[RefFold(Tail(ds), shift) + 1][permuted + 1]

C18_ReferenceFold ==
    /\ (op = "calculate_checksum_result" /\ IsDigitString(input)) =>
          /\ result.tag = "Ok"
          /\ result.val = INV_TABLE[RefFold(DigitsOf(input), 1) + 1]
    /\ (op = "validate_result" /\ IsDigitString(input)) =>
          /\ result.tag = "Ok"
          /\ result.val = (RefFold(DigitsOf(input), 0) = 0)

\* calculate_checksum_result has folded more than 8 digits
C18_Witness ==
    /\ op = "calculate_checksum_result"
    /\ IsDigitString(input)
    /\ Len(input) > 8
    /\ result.tag = "Ok"
    /\ result.val = INV_TABLE[RefFold(DigitsOf(input), 1) + 1]

(***************************************************************************)
(* C19: for every x in 0..9, INV[x] is the unique y in 0..9 with           *)
(* D[x][y] = 0.                                                            *)
(***************************************************************************)
\* stated of the tables as every call of calculate_checksum_result reads them
C19_InverseTable ==
    op = "calculate_checksum_result" =>
        /\ Len(INV_TABLE) = 10
        /\ \A x \in 0..9 :
              {y \in 0..9 : D_TABLE[x + 1][y + 1] = 0} = {INV_TABLE[x + 1]}

\* calculate_checksum_result has returned the inverse of a fold value that
\* is not its own inverse
C19_Witness ==
    /\ op = "calculate_checksum_result"
    /\ IsDigitString(input)
    /\ result.tag = "Ok"
    /\ LET c == ChecksumLoop(DigitsOf(input), 0, 0)
       IN  /\ c # result.val
           /\ D_TABLE[c + 1][result.val + 1] = 0

(***************************************************************************)
(* C20: each of the 8 rows of P is a permutation of 0..9 (every digit      *)
(* occurs exactly once in it), and row 0 is the identity.                  *)
(***************************************************************************)
\* stated of the table as every call of validate reads it
C20_PermutationTable ==
    op = "validate" =>
        /\ Len(P_TABLE) = 8
        /\ \A r \in 1..8 :
              /\ Len(P_TABLE[r]) = 10
              /\ {P_TABLE[r][k] : k \in 1..10} = 0..9
        /\ \A x \in 0..9 : P_TABLE[1][x + 1] = x

\* validate has folded a lone digit with row 0 and accepted it: the digit
\* is 0, as the identity row leaves it
C20_Witness ==
    /\ op = "validate"
    /\ IsDigitString(input)
    /\ Len(input) = 1
    /\ result = TRUE
    /\ input[1] = 48

(***************************************************************************)
(* C15: no interference between callers.  When several callers run         *)
(* calculate_checksum and validate at the same time, their fold turns      *)
(* interleaved in any order, each call returns what it returns when run    *)
(* alone on the same input, and no call fails.                             *)
(***************************************************************************)
C15_NoInterference ==
    \A t \in Callers :
        /\ calls[t].pc # "panic"
        /\ (calls[t].pc = "done" /\ calls[t].fn = "calculate_checksum") =>
              calls[t].ret = CalculateChecksum(calls[t].arg)
        /\ (calls[t].pc = "done" /\ calls[t].fn = "validate") =>
              calls[t].ret = Validate(calls[t].arg)

\* the second caller has returned the checksum of nine digits while the
\* first one is in the middle of its fold of another input
C15_Witness ==
    /\ calls[1].pc = "loop"
    /\ calls[1].i \in 1..8
    /\ calls[2].pc = "done"
    /\ calls[2].fn = "calculate_checksum"
    /\ Len(calls[2].arg) = 9
    /\ calls[2].arg # calls[1].arg
    /\ calls[2].ret = CalculateChecksum(calls[2].arg)

(***************************************************************************)
(* C16: calculate_checksum_result, validate_result and validate_aadhaar    *)
(* never panic, whatever the input: every table access has its row below   *)
(* the number of rows and its column in 0..9, and validate_aadhaar reaches *)
(* the slice of the first 11 bytes and digits[11] only when the input is   *)
(* 12 ASCII digits.                                                        *)
(***************************************************************************)
C16_NoPanic ==
    \A t \in Callers :
        /\ calls[t].pc # "panic"
        /\ calls[t].pc = "loop" =>
              /\ \A k \in 1..Len(calls[t].digits) : calls[t].digits[k] \in 0..9
              /\ calls[t].c \in 0..9
        /\ (calls[t].fn = "validate_aadhaar" /\ calls[t].pc = "loop") =>
              /\ IsDigitString(calls[t].arg)
              /\ Len(calls[t].arg) = 12

\* validate_aadhaar has gone through the slice, digits[11] and the fold of
\* 11 digits and has returned
C16_Witness ==
    /\ calls[1].fn = "validate_aadhaar"
    /\ calls[1].pc = "done"
    /\ calls[1].i = 11
    /\ calls[1].ret.tag = "Ok"

(***************************************************************************)
(* C17: in both fold loops the accumulator c starts at 0 and is in 0..9    *)
(* after every turn, for every digit sequence; the permuted digit fed to D *)
(* is in 0..9 at every turn.                                               *)
(***************************************************************************)
C17_AccumulatorRange ==
    \A t \in Callers :
        /\ calls[t].c \in 0..9
        /\ calls[t].permuted \in 0..9
        /\ (calls[t].pc = "loop" /\ calls[t].i = 0) => calls[t].c = 0

\* a fold is past its eighth turn with a non-zero accumulator
C17_Witness ==
    /\ calls[1].pc = "loop"
    /\ calls[1].i > 8
    /\ calls[1].c \in 1..9
    /\ calls[1].permuted \in 0..9

(***************************************************************************)
(* C21: gap-2 transpositions.  In the valid string made of "1234567890"    *)
(* and its check digit, more than half of the exchanges of the characters  *)
(* at positions i and i + 2, taken where the two differ, make validate     *)
(* return false.  Over all the valid strings of a bounded length (a        *)
(* payload of 1 to Gap2Len digits and its check digit), taken together,    *)
(* more than half of these exchanges are rejected too, and not all of      *)
(* them: some valid string has such an exchange that validate accepts.     *)
(***************************************************************************)
\* s with the characters at positions p and p + 2 exchanged
Transpose2(s, p) == [s EXCEPT ![p] = s[p + 2], ![p + 2] = s[p]]

\* the positions p of v where the characters at p and p + 2 differ
Gap2Swaps(v) == {p \in 1..(Len(v) - 2) : v[p] # v[p + 2]}

\* those of them whose exchange validate rejects
Gap2Detected(v) == {p \in Gap2Swaps(v) : Validate(Transpose2(v, p)) = FALSE}

\* s followed by the check digit calculate_checksum returns for it
ValidOf(s) == Append(s, DigitChar(CalculateChecksum(s)))

\* the gap-2 exchanges of the valid strings made of the payloads in S, each
\* as a payload, a position and what validate returns after the exchange
Gap2Outcomes(S) ==
    UNION {LET v == ValidOf(s)
           IN  {<<s, p, Validate(Transpose2(v, p))>> : p \in Gap2Swaps(v)}
           : s \in S}

\* the length of the longest payload over which the exchanges are counted
\* together
Gap2Len == 3

\* every payload of 1 to Gap2Len digits
Gap2Payloads == UNION {[1..n -> AsciiDigits] : n \in 1..Gap2Len}

C21_Gap2Transpositions ==
    (ChecksumOfDigits /\ input = Run(10)) =>
        /\ Validate(WithCheck) = TRUE
        /\ 2 * Cardinality(Gap2Detected(WithCheck))
              > Cardinality(Gap2Swaps(WithCheck))
        /\ LET outcomes == Gap2Outcomes(Gap2Payloads)
               total == Cardinality(outcomes)
               detected == Cardinality({o \in outcomes : o[3] = FALSE})
           IN  /\ 2 * detected > total
               /\ detected < total

\* calculate_checksum has returned the check digit of "1234567890"; of the
\* nine exchanges at gap 2 in the valid string seven are rejected, and the
\* exchange of the second and fourth characters is accepted
C21_Witness ==
    /\ ChecksumOfDigits
    /\ input = Run(10)
    /\ Cardinality(Gap2Swaps(WithCheck)) = 9
    /\ Cardinality(Gap2Detected(WithCheck)) = 7
    /\ 2 \in Gap2Swaps(WithCheck)
    /\ Validate(Transpose2(WithCheck, 2)) = TRUE

(***************************************************************************)
(* C22: for every string x of exactly 12 ASCII digits,                     *)
(* validate_aadhaar(x) is Ok(validate(x)): computing the check digit of    *)
(* the first 11 digits and comparing it with the 12th accepts exactly the  *)
(* strings that the fold of validate_result over all 12 digits brings to   *)
(* zero.                                                                   *)
(***************************************************************************)
\* validate_aadhaar has returned on 12 ASCII digits
AadhaarOfDigits ==
    op = "validate_aadhaar" /\ IsDigitString(input) /\ Len(input) = 12

C22_AadhaarAgreesWithValidate ==
    AadhaarOfDigits => result = Ok(Validate(input))

\* validate_aadhaar has rejected 12 digits that validate rejects too, the
\* 12th being another digit than the check digit of the first 11
C22_Witness ==
    /\ AadhaarOfDigits
    /\ result = Ok(FALSE)
    /\ Validate(input) = FALSE
    /\ input[12] # DigitChar(CalculateChecksum(SubSeq(input, 1, 11)))

(***************************************************************************)
(* C23: a leading zero is significant except at a period boundary.  For    *)
(* every string v that validate accepts, validate accepts "0" followed by  *)
(* v when the length of v is a multiple of 8 and rejects it otherwise; for *)
(* every non-empty digit string s, calculate_checksum of "0" followed by s *)
(* equals calculate_checksum of s exactly when the length of s is 7        *)
(* modulo 8.                                                               *)
(***************************************************************************)
\* s with the character '0' put in front
LeadingZero(s) == <<Zero>> \o s

C23_LeadingZero ==
    /\ (op = "validate" /\ result = TRUE) =>
          (Validate(LeadingZero(input)) = TRUE <=> Len(input) % 8 = 0)
    /\ ChecksumOfDigits =>
          /\ (Validate(LeadingZero(WithCheck)) = TRUE
                 <=> Len(WithCheck) % 8 = 0)
          /\ (CalculateChecksum(LeadingZero(input)) = result
                 <=> Len(input) % 8 = 7)

\* validate has accepted a string of 8 characters, which is still accepted
\* with a zero put in front, and its payload of 7 digits keeps its check
\* digit with a zero put in front
C23_Witness ==
    /\ op = "validate"
    /\ result = TRUE
    /\ Len(input) = 8
    /\ Validate(LeadingZero(input)) = TRUE
    /\ LET s == SubSeq(input, 1, 7)
       IN  CalculateChecksum(LeadingZero(s)) = CalculateChecksum(s)

\* calculate_checksum has returned on a payload of 4 digits whose check
\* digit changes, and whose valid string is rejected, with a zero in front
C23_WitnessOffBoundary ==
    /\ ChecksumOfDigits
    /\ Len(input) = 4
    /\ CalculateChecksum(LeadingZero(input)) # result
    /\ Validate(WithCheck) = TRUE
    /\ Validate(LeadingZero(WithCheck)) = FALSE

(***************************************************************************)
(* C24: D is a group table on 0..9.  D[D[a][b]][c] = D[a][D[b][c]] for all *)
(* a, b, c; 0 is an identity on both sides (D[0][x] = x = D[x][0]); every  *)
(* row and every column of D is a permutation of 0..9; and INV gives an    *)
(* inverse on both sides (D[INV[x]][x] = 0 and D[x][INV[x]] = 0).  The     *)
(* fold of validate_result, which meets the check digit first, relies on   *)
(* the inverse on the left.                                                *)
(***************************************************************************)
\* D[a][b] and INV[x] with the 0-based indices of the code
Mul(a, b) == D_TABLE[a + 1][b + 1]

Inv(x) == INV_TABLE[x + 1]

\* stated of the tables as read by the calls of validate_result that accept
C24_GroupTable ==
    (op = "validate_result" /\ result = Ok(TRUE)) =>
        /\ Len(D_TABLE) = 10
        /\ \A a \in 0..9 : Len(D_TABLE[a + 1]) = 10
        /\ \A a, b, c \in 0..9 : Mul(Mul(a, b), c) = Mul(a, Mul(b, c))
        /\ \A x \in 0..9 : Mul(0, x) = x /\ Mul(x, 0) = x
        /\ \A a \in 0..9 : {Mul(a, b) : b \in 0..9} = 0..9
        /\ \A b \in 0..9 : {Mul(a, b) : a \in 0..9} = 0..9
        /\ \A x \in 0..9 : Mul(Inv(x), x) = 0 /\ Mul(x, Inv(x)) = 0

\* validate_result has accepted a string whose payload folds to a value x
\* that is not its own inverse: the fold began with the check digit INV[x]
\* and came to D[INV[x]][x] = 0
C24_Witness ==
    /\ op = "validate_result"
    /\ IsDigitString(input)
    /\ Len(input) >= 2
    /\ result = Ok(TRUE)
    /\ LET payload == SubSeq(input, 1, Len(input) - 1)
           x == ChecksumLoop(DigitsOf(payload), 0, 0)
       IN  /\ Inv(x) # x
           /\ input[Len(input)] = DigitChar(Inv(x))
           /\ Mul(Inv(x), x) = 0

====
